---- MODULE Spec2Model ----
(***************************************************************************)
(* Model of ringbuffer.py: class RingBuffer, a fixed-capacity circular     *)
(* byte buffer.  start_pos is the write cursor, end_pos the read cursor,   *)
(* buf the bytearray and size the capacity field.  buf is modelled as a    *)
(* TLA+ sequence: Python index i is TLA+ index i + 1.                      *)
(***************************************************************************)
EXTENDS Integers, Sequences, FiniteSets, TLC

VARIABLES buf, start_pos, end_pos, size, op, arg, result, ret, pushed, pulled,
          npulled

vars == <<buf, start_pos, end_pos, size, op, arg, result, ret, pushed, pulled,
          npulled>>
ring == <<buf, start_pos, end_pos, size>>
hist == <<pushed, pulled, npulled>>

\* ---- bounds of the model ------------------------------------------------
MaxSize == 4
MaxData == 4
MaxHist == 6

\* the byte values pushed by callers; 0 is the fill byte of bytearray(size)
Bytes == {1, 2}
Sizes == 1..MaxSize
Lengths == 0..(MaxSize + 1)
Shifts == (0 - 1)..MaxSize

Min(a, b) == IF a < b THEN a ELSE b
Max(a, b) == IF a > b THEN a ELSE b

\* all sequences over S of length at most n
RECURSIVE SeqsUpTo(_, _)
SeqsUpTo(S, n) ==
  IF n = 0 THEN {<<>>}
  ELSE LET prev == SeqsUpTo(S, n - 1)
       IN prev \cup {Append(s, x) : s \in {t \in prev : Len(t) = n - 1}, x \in S}

Zeros(n) == [i \in 1..n |-> 0]

\* ---- Python slice semantics (non-negative indices, clipped to the length)
\* s[a:b]
Slice(s, a, b) ==
  LET lo == Min(a, Len(s))
      hi == Min(b, Len(s))
  IN IF hi > lo THEN SubSeq(s, lo + 1, hi) ELSE <<>>

\* s[a:]
SliceFrom(s, a) == Slice(s, a, Len(s))

\* s with the elements of d stored at Python positions a .. a+Len(d)-1
Store(s, a, d) ==
  [i \in 1..Len(s) |-> IF i > a /\ i <= a + Len(d) THEN d[i - a] ELSE s[i]]

\* ---- queries -----------------------------------------------------------
\* variant: the wrapped branch counts only up to the physical end
data_sizeOf_nowrap(sp, ep, sz) ==
  IF ep < sp THEN sp - ep
  ELSE IF ep = sp THEN 0
  ELSE sz - ep

data_sizeOf(sp, ep, sz) ==
  IF ep < sp THEN sp - ep
  ELSE IF ep = sp THEN 0
  ELSE sp + sz - ep

data_size == data_sizeOf(start_pos, end_pos, size)

\* variant: the reserved slot is not subtracted
available_sizeOf_noslot(sp, ep, sz) == sz - data_sizeOf(sp, ep, sz)

available_sizeOf(sp, ep, sz) == sz - data_sizeOf(sp, ep, sz) - 1

available_size == available_sizeOf(start_pos, end_pos, size)

\* the three cases of data_size
stateOf(sp, ep) ==
  IF sp = ep THEN "EMPTY"
  ELSE IF sp > ep THEN "CONTIGUOUS"
  ELSE "WRAPPED"

no_mcp_size ==
  IF end_pos < start_pos THEN start_pos - end_pos
  ELSE IF end_pos = start_pos THEN 0
  ELSE size - end_pos

len == Len(buf)

is_fullOf(sp, ep) == sp + 1 = ep

is_full == is_fullOf(start_pos, end_pos)

is_empty == start_pos = end_pos

\* ---- construction ------------------------------------------------------
TypeOK ==
  /\ size \in 2..MaxSize
  /\ start_pos \in Nat /\ end_pos \in Nat
  /\ buf \in Seq(Nat)
  /\ op \in {"new", "push", "pull", "shift", "clear", "resize"}
  /\ result \in {"ok", "OverflowException", "ValueError"}

Init ==
  /\ size \in 2..MaxSize
  /\ buf = Zeros(size)
  /\ start_pos = 0
  /\ end_pos = 0
  /\ op = "new"
  /\ arg = size
  /\ result = "ok"
  /\ ret = <<>>
  /\ pushed = <<>>
  /\ pulled = <<>>
  /\ npulled = 0

\* a buffer constructed with a capacity above every later resize argument
InitLarge ==
  /\ size = MaxSize + 1
  /\ buf = Zeros(size)
  /\ start_pos = 0
  /\ end_pos = 0
  /\ op = "new"
  /\ arg = size
  /\ result = "ok"
  /\ ret = <<>>
  /\ pushed = <<>>
  /\ pulled = <<>>
  /\ npulled = 0

\* ---- clear, shift ------------------------------------------------------
\* variant: only the write cursor is reset
Clear_startOnly ==
  /\ start_pos' = 0
  /\ UNCHANGED <<end_pos, buf, size, hist>>
  /\ op' = "clear" /\ arg' = 0 /\ result' = "ok" /\ ret' = <<>>

Clear ==
  /\ start_pos' = 0
  /\ end_pos' = 0
  /\ UNCHANGED <<buf, size, hist>>
  /\ op' = "clear" /\ arg' = 0 /\ result' = "ok" /\ ret' = <<>>

\* variant: the cursor is advanced without the modulo
shiftOf_nomod(sp, nbytes, sz) == sp + nbytes

shiftOf(sp, nbytes, sz) == (sp + nbytes) % sz

Shift ==
  \E nbytes \in Shifts :
    /\ start_pos' = shiftOf(start_pos, nbytes, size)
    /\ UNCHANGED <<buf, end_pos, size, hist>>
    /\ op' = "shift" /\ arg' = nbytes /\ result' = "ok" /\ ret' = <<>>

\* ---- resize ------------------------------------------------------------
\* the bytearray after the extend / del of resize, for old # new
resizeBuf(b, old, new) ==
  IF old < new THEN b \o Zeros(new - old)
  ELSE Slice(b, 0, old - new)

\* variant: growing returns early as well
resizeReturnsEarly_grow(old, new) == old <= new

\* resize(new) returns early, without clearing, when the size is unchanged
resizeReturnsEarly(old, new) == old = new

Resize ==
  \E sz \in Sizes :
    /\ op' = "resize" /\ arg' = sz /\ ret' = <<>>
    /\ UNCHANGED hist
    /\ IF sz < 2
       THEN /\ result' = "ValueError"
            /\ UNCHANGED ring
       ELSE /\ result' = "ok"
            /\ IF resizeReturnsEarly(size, sz)
               THEN UNCHANGED ring
               ELSE /\ buf' = resizeBuf(buf, size, sz)
                    /\ size' = sz
                    /\ start_pos' = 0
                    /\ end_pos' = 0

\* ---- RingBuffer(size) --------------------------------------------------
\* variant: a capacity of 1 is accepted
invalidSize_lt1(sz) == sz < 1

\* the guard of __init__: size < 2
invalidSize(sz) == sz < 2

New ==
  \E sz \in Sizes :
    /\ op' = "new" /\ arg' = sz /\ ret' = <<>>
    /\ pushed' = <<>> /\ pulled' = <<>> /\ npulled' = 0
    /\ IF invalidSize(sz)
       THEN /\ result' = "ValueError"
            /\ UNCHANGED ring
       ELSE /\ result' = "ok"
            /\ buf' = Zeros(sz)
            /\ size' = sz
            /\ start_pos' = 0
            /\ end_pos' = 0

\* ---- next --------------------------------------------------------------
\* the memoryview returned by next(): raises, or the view buf[lo : lo + n]
nextOf(b, sp, ep, sz) ==
  LET limit == (ep - 1) % sz
      lo == Min(sp, Len(b))
  IN IF sp < limit
       THEN [raises |-> FALSE, lo |-> lo, n |-> Max(0, Min(limit, Len(b)) - lo)]
     ELSE IF sp > limit
       THEN [raises |-> FALSE, lo |-> lo, n |-> Len(b) - lo]
     ELSE [raises |-> TRUE, lo |-> lo, n |-> 0]

\* ---- push_bytes --------------------------------------------------------
\* variant: one byte more than the available size is let through
pushOverflows_plus1(length, avail) == length > avail + 1

\* the guard of push_bytes: length > self.available_size
pushOverflows(length, avail) == length > avail

\* outcome of push_bytes(data): the exception raised (or "ok"), the
\* bytearray and the write cursor it leaves
push_bytesOf(b, sp, ep, sz, data) ==
  LET length == Len(data)
      mv == nextOf(b, sp, ep, sz)
      shift_len == mv.n
      mv2len == Min(ep, Len(b))
      first == Store(b, mv.lo, SubSeq(data, 1, shift_len))
  IN IF pushOverflows(length, available_sizeOf(sp, ep, sz))
       THEN [result |-> "OverflowException", buf |-> b, start_pos |-> sp]
     ELSE IF mv.raises
       THEN [result |-> "OverflowException", buf |-> b, start_pos |-> sp]
     ELSE IF mv.n >= length
       THEN [result |-> "ok", buf |-> Store(b, mv.lo, data),
             start_pos |-> shiftOf(sp, length, sz)]
     ELSE IF Min(length - shift_len, mv2len) # length - shift_len
       \* mv2[: length - shift_len] is shorter than data[shift_len:]:
       \* the assignment raises after the first piece was written
       THEN [result |-> "ValueError", buf |-> first, start_pos |-> sp]
     ELSE [result |-> "ok",
           buf |-> Store(first, 0, SubSeq(data, shift_len + 1, length)),
           start_pos |-> shiftOf(sp, length, sz)]

PushBytes(data) ==
  LET r == push_bytesOf(buf, start_pos, end_pos, size, data)
  IN /\ buf' = r.buf
     /\ start_pos' = r.start_pos
     /\ UNCHANGED <<end_pos, size>>
     /\ op' = "push" /\ arg' = data /\ result' = r.result /\ ret' = <<>>

Push ==
  \E data \in SeqsUpTo(Bytes, MaxData) :
    /\ PushBytes(data)
    /\ UNCHANGED hist

\* a push of n bytes of one value.  Neither the exception raised nor the
\* cursors left by any method depend on the byte values, only on len(data),
\* len(buf) and the cursors.
PushLen ==
  \E n \in 0..MaxData :
    /\ PushBytes([i \in 1..n |-> 1])
    /\ UNCHANGED hist

\* the caller's write through the view of next(): data stored into the
\* first len(data) bytes of the view, then shift(len(data))
zero_copyOf(b, sp, ep, sz, data) ==
  LET mv == nextOf(b, sp, ep, sz)
  IN [buf |-> Store(b, mv.lo, data),
      start_pos |-> shiftOf(sp, Len(data), sz)]

\* ---- pull_bytes --------------------------------------------------------
\* wrapped state, first branch: self.end_pos + nbytes <= self.size
fitsBeforeEnd(ep, nbytes, sz) == ep + nbytes <= sz

\* variant: strict comparison
fitsWrapped_strict(sp, ep, sz, nbytes) == sp + sz - ep > nbytes

\* wrapped state, second branch: start_pos + size - end_pos >= nbytes
fitsWrapped(sp, ep, sz, nbytes) == sp + sz - ep >= nbytes

\* variant: one byte beyond the write cursor is let through
fitsContiguous_plus1(sp, ep, nbytes) == ep + nbytes <= sp + 1

\* variant: strict comparison
fitsContiguous_strict(sp, ep, nbytes) == ep + nbytes < sp

\* contiguous state: self.end_pos + nbytes <= self.start_pos
fitsContiguous(sp, ep, nbytes) == ep + nbytes <= sp

\* variant: a length of 0 is accepted
invalidLength_lt0(nbytes) == nbytes < 0

\* the guard of pull_bytes: nbytes < 1
invalidLength(nbytes) == nbytes < 1

\* outcome of pull_bytes(nbytes): the exception raised (or "ok"), the bytes
\* returned and the read cursor it leaves
pull_bytesOf(b, sp, ep, sz, nbytes) ==
  IF invalidLength(nbytes)
    THEN [result |-> "ValueError", ret |-> <<>>, end_pos |-> ep]
  ELSE IF sp < ep
    THEN IF fitsBeforeEnd(ep, nbytes, sz)
           THEN [result |-> "ok", ret |-> SliceFrom(b, ep),
                 end_pos |-> (ep + nbytes) % sz]
         ELSE IF fitsWrapped(sp, ep, sz, nbytes)
           THEN [result |-> "ok",
                 ret |-> SliceFrom(b, ep) \o Slice(b, 0, ep + nbytes - sz),
                 end_pos |-> ep + nbytes - sz]
         ELSE [result |-> "OverflowException", ret |-> <<>>, end_pos |-> ep]
  ELSE IF sp > ep
    THEN IF fitsContiguous(sp, ep, nbytes)
           THEN [result |-> "ok", ret |-> Slice(b, ep, ep + nbytes),
                 end_pos |-> ep + nbytes]
         ELSE [result |-> "OverflowException", ret |-> <<>>, end_pos |-> ep]
  ELSE [result |-> "OverflowException", ret |-> <<>>, end_pos |-> ep]

PullBytes(nbytes) ==
  LET r == pull_bytesOf(buf, start_pos, end_pos, size, nbytes)
  IN /\ end_pos' = r.end_pos
     /\ UNCHANGED <<buf, start_pos, size>>
     /\ op' = "pull" /\ arg' = nbytes /\ result' = r.result /\ ret' = r.ret

Pull ==
  \E nbytes \in Lengths :
    /\ PullBytes(nbytes)
    /\ UNCHANGED hist

\* ---- a caller that records what it pushed and what it pulled ------------
PushRec ==
  \E data \in SeqsUpTo(Bytes, MaxData) :
    /\ Len(pushed) + Len(data) <= MaxHist
    /\ PushBytes(data)
    /\ pushed' = IF result' = "ok" THEN pushed \o data ELSE pushed
    /\ UNCHANGED <<pulled, npulled>>

PullRec ==
  \E nbytes \in Lengths :
    /\ PullBytes(nbytes)
    /\ pulled' = IF result' = "ok" THEN pulled \o ret' ELSE pulled
    /\ npulled' = IF result' = "ok" THEN npulled + nbytes ELSE npulled
    /\ UNCHANGED pushed

\* clear(), after which the caller starts its record afresh
ClearRec ==
  /\ start_pos' = 0
  /\ end_pos' = 0
  /\ UNCHANGED <<buf, size>>
  /\ op' = "clear" /\ arg' = 0 /\ result' = "ok" /\ ret' = <<>>
  /\ pushed' = <<>> /\ pulled' = <<>> /\ npulled' = 0

\* ---- specifications ----------------------------------------------------
Next == New \/ Push \/ Pull \/ Shift \/ Clear \/ Resize

Spec == Init /\ [][Next]_vars

\* every method, the pushed data drawn by length only
NextLen == New \/ PushLen \/ Pull \/ Shift \/ Clear \/ Resize

SpecLen == Init /\ [][NextLen]_vars

\* pushes and pulls only, on a freshly constructed buffer, with the caller
\* recording the bytes
NextIO == PushRec \/ PullRec

SpecIO == Init /\ [][NextIO]_vars

\* pushes, pulls and clears, the caller counting the bytes since the
\* construction or the last clear
NextAcct == PushRec \/ PullRec \/ ClearRec

SpecAcct == Init /\ [][NextAcct]_vars

\* every method, on a buffer constructed larger than any resize argument
SpecShrink == InitLarge /\ [][NextLen]_vars

\* ======================================================================
\* Properties
\* ======================================================================

\* the byte at Python index i of b, or -1 past its end
At(b, i) == IF i >= 0 /\ i < Len(b) THEN b[i + 1] ELSE 0 - 1

C2_PullReturnsN ==
  [][(op' = "pull" /\ result' = "ok") =>
       /\ Len(ret') = arg'
       /\ \A i \in 1..Len(ret') : ret'[i] = At(buf, (end_pos + i - 1) % size)
       /\ end_pos' = (end_pos + arg') % size
       /\ data_size' = data_size - arg']_vars

\* C3: a push or a pull that fails leaves both cursors, the capacity and
\* every byte of the store as they were before the call.
C3_FailureLeavesRing ==
  [][(op' \in {"push", "pull"} /\ result' # "ok") => UNCHANGED ring]_vars

\* C4: push(data) fails with Overflow exactly when len(data) exceeds the
\* available size; pushing exactly the available size succeeds and leaves
\* the available size 0.
C4_PushOverflowIff ==
  [][(op' = "push") =>
       /\ (result' = "OverflowException") <=> (Len(arg') > available_size)
       /\ (Len(arg') = available_size) =>
            (result' = "ok" /\ available_size' = 0)]_vars

\* C5: for n >= 1, pull(n) fails with Overflow exactly when n exceeds the
\* occupied size, and succeeds otherwise, in the contiguous and in the
\* wrapped state.
C5_PullOverflowIff ==
  [][(op' = "pull" /\ arg' >= 1) =>
       /\ (result' = "OverflowException") <=> (arg' > data_size)
       /\ (arg' <= data_size) => (result' = "ok")]_vars

\* a pull of at least two bytes succeeded in the wrapped state and left the
\* buffer wrapped
C5_Witness ==
  /\ op = "pull" /\ result = "ok" /\ arg >= 2
  /\ start_pos < end_pos

\* C6: both cursors always lie in [0, capacity).
C6_CursorRange ==
  /\ 0 <= start_pos /\ start_pos < size
  /\ 0 <= end_pos /\ end_pos < size

\* a push crossed the physical end of the store: the write cursor wrapped
C6_Witness ==
  /\ op = "push" /\ result = "ok" /\ Len(arg) >= 2
  /\ start_pos < end_pos

\* C7: the occupied and the available size both lie in 0 .. capacity - 1
\* and add up to capacity - 1.
C7_ReservedSlot ==
  /\ 0 <= data_size /\ data_size <= size - 1
  /\ 0 <= available_size /\ available_size <= size - 1
  /\ available_size + data_size = size - 1

\* a push filled the buffer up to the reserved slot
C7_Witness ==
  /\ op = "push" /\ result = "ok" /\ Len(arg) >= 1
  /\ data_size = size - 1
  /\ available_size = 0

\* C8: the length of the store, which len() returns, is the capacity.
C8_StoreLength == len = size

\* C9: after resize(c) with any valid c, both cursors are 0 and the buffer
\* is empty.
C9_ResizeAlwaysEmpties ==
  [][(op' = "resize" /\ result' = "ok") =>
       /\ start_pos' = 0 /\ end_pos' = 0
       /\ data_size' = 0 /\ is_empty']_vars

\* C9 as amended: after resize(c) with a valid c other than the current
\* capacity, both cursors are 0 and the buffer is empty; resize to the
\* current capacity leaves the cursors, the store and the capacity as they
\* were.
C9_ResizeToOtherSizeEmpties ==
  [][(op' = "resize" /\ result' = "ok") =>
       IF arg' # size
       THEN /\ start_pos' = 0 /\ end_pos' = 0
            /\ data_size' = 0 /\ is_empty'
            /\ size' = arg'
       ELSE UNCHANGED ring]_vars

\* a resize to another capacity emptied a buffer that had been written to
C9_Witness ==
  /\ op = "resize" /\ result = "ok"
  /\ start_pos = 0 /\ end_pos = 0
  /\ \E i \in 1..Len(buf) : buf[i] # 0

\* C10: is_full() is true exactly when the available size is 0.
C10_IsFullIffNoRoom == is_full <=> (available_size = 0)

\* C11: in the empty state (start_pos = end_pos) pull(n) fails with Overflow
\* for every integer n, n < 1 included.
C11_EmptyPullOverflows ==
  [][(op' = "pull" /\ start_pos = end_pos) =>
       result' = "OverflowException"]_vars

\* C11 as amended: in the empty state pull(n) fails with Overflow for every
\* n >= 1 and with ValueError for every n < 1; it never succeeds.
C11_EmptyPullFails ==
  [][(op' = "pull" /\ start_pos = end_pos) =>
       /\ (arg' >= 1) => (result' = "OverflowException")
       /\ (arg' < 1) => (result' = "ValueError")
       /\ UNCHANGED ring]_vars

\* a pull of at least one byte from an empty buffer, away from position 0,
\* raised Overflow
C11_Witness ==
  /\ op = "pull" /\ result = "OverflowException" /\ arg >= 1
  /\ start_pos = end_pos /\ start_pos > 0

\* C12: with at least one byte buffered, pull(occupied_size) succeeds and
\* leaves the buffer empty, and a pull(1) right after it fails with Overflow.
C12_PullAllEmpties ==
  [][(op' = "pull" /\ data_size >= 1 /\ arg' = data_size) =>
       /\ result' = "ok"
       /\ start_pos' = end_pos'
       /\ pull_bytesOf(buf', start_pos', end_pos', size', 1).result
            = "OverflowException"]_vars

\* a pull of everything buffered crossed the physical end of the store (the
\* read cursor ends below the number of bytes pulled) and left the buffer
\* empty
C12_Witness ==
  /\ op = "pull" /\ result = "ok"
  /\ start_pos = end_pos
  /\ end_pos > 0 /\ arg > end_pos

\* C13: after any sequence of successful pushes and pulls since construction
\* or the last clear, the occupied size is the number of bytes pushed minus
\* the number of bytes requested by the pulls, and the available size is
\* capacity - 1 minus that.
C13_Accounting ==
  /\ data_size = Len(pushed) - npulled
  /\ available_size = size - 1 - (Len(pushed) - npulled)

\* a push succeeded after a pull and left the data wrapped around the
\* physical end
C13_Witness ==
  /\ op = "push" /\ result = "ok" /\ Len(arg) >= 1
  /\ npulled >= 1
  /\ start_pos < end_pos

\* C14: RingBuffer(capacity) fails when capacity < 2; for capacity >= 2 the
\* new buffer has both cursors 0, occupied size 0, is empty, is not full and
\* has available size capacity - 1.
C14_NewBuffer ==
  [][(op' = "new") =>
       IF arg' < 2
       THEN result' = "ValueError"
       ELSE /\ result' = "ok"
            /\ size' = arg'
            /\ start_pos' = 0 /\ end_pos' = 0
            /\ data_size' = 0
            /\ is_empty'
            /\ ~is_full'
            /\ available_size' = arg' - 1]_vars

\* a buffer of capacity at least 3 was just constructed
C14_Witness ==
  /\ op = "new" /\ result = "ok" /\ arg >= 3
  /\ size = arg
  /\ available_size = size - 1

\* C15: clear() always succeeds, sets both cursors to 0 so that the occupied
\* size is 0, leaves the capacity and every byte of the store unchanged, and
\* a clear() right after a clear() changes nothing.
C15_Clear ==
  [][(op' = "clear") =>
       /\ result' = "ok"
       /\ start_pos' = 0 /\ end_pos' = 0
       /\ data_size' = 0
       /\ size' = size
       /\ buf' = buf
       /\ (op = "clear") => (ring' = ring)]_vars

\* a buffer that had been written to was cleared: the bytes are still there
C15_Witness ==
  /\ op = "clear" /\ result = "ok"
  /\ start_pos = 0 /\ end_pos = 0
  /\ \E i \in 1..Len(buf) : buf[i] # 0

\* C16: every successful push of a non-empty byte sequence goes
\* EMPTY->CONTIGUOUS, CONTIGUOUS->CONTIGUOUS, CONTIGUOUS->WRAPPED or
\* WRAPPED->WRAPPED; never EMPTY->WRAPPED, never WRAPPED->CONTIGUOUS, never
\* into EMPTY.
C16_PushTransitions ==
  [][(op' = "push" /\ result' = "ok" /\ Len(arg') >= 1) =>
       <<stateOf(start_pos, end_pos), stateOf(start_pos', end_pos')>> \in
         { <<"EMPTY", "CONTIGUOUS">>, <<"CONTIGUOUS", "CONTIGUOUS">>,
           <<"CONTIGUOUS", "WRAPPED">>, <<"WRAPPED", "WRAPPED">> }]_vars

\* C16 as amended: every successful push of a non-empty byte sequence goes
\* EMPTY->CONTIGUOUS, EMPTY->WRAPPED, CONTIGUOUS->CONTIGUOUS,
\* CONTIGUOUS->WRAPPED or WRAPPED->WRAPPED; EMPTY->WRAPPED and
\* CONTIGUOUS->WRAPPED happen exactly when the write reaches the physical
\* end of the store; never WRAPPED->CONTIGUOUS, never into EMPTY.
C16_PushTransitionsAmended ==
  [][(op' = "push" /\ result' = "ok" /\ Len(arg') >= 1) =>
       /\ <<stateOf(start_pos, end_pos), stateOf(start_pos', end_pos')>> \in
            { <<"EMPTY", "CONTIGUOUS">>, <<"EMPTY", "WRAPPED">>,
              <<"CONTIGUOUS", "CONTIGUOUS">>, <<"CONTIGUOUS", "WRAPPED">>,
              <<"WRAPPED", "WRAPPED">> }
       /\ (stateOf(start_pos, end_pos) # "WRAPPED") =>
            ((stateOf(start_pos', end_pos') = "WRAPPED")
               <=> (start_pos + Len(arg') >= size))]_vars

\* a push into an empty buffer crossed the physical end and left it wrapped:
\* everything buffered is what was just pushed
C16_Witness ==
  /\ op = "push" /\ result = "ok" /\ Len(arg) >= 1
  /\ start_pos < end_pos
  /\ data_size = Len(arg)

\* C17: every successful pull goes CONTIGUOUS->CONTIGUOUS,
\* CONTIGUOUS->EMPTY, WRAPPED->WRAPPED, WRAPPED->CONTIGUOUS or
\* WRAPPED->EMPTY; never CONTIGUOUS->WRAPPED; and WRAPPED->CONTIGUOUS only
\* when the pull takes at least all the bytes from the read cursor to the
\* physical end of the store.
C17_PullTransitions ==
  [][(op' = "pull" /\ result' = "ok") =>
       /\ <<stateOf(start_pos, end_pos), stateOf(start_pos', end_pos')>> \in
            { <<"CONTIGUOUS", "CONTIGUOUS">>, <<"CONTIGUOUS", "EMPTY">>,
              <<"WRAPPED", "WRAPPED">>, <<"WRAPPED", "CONTIGUOUS">>,
              <<"WRAPPED", "EMPTY">> }
       /\ (stateOf(start_pos, end_pos) = "WRAPPED"
             /\ stateOf(start_pos', end_pos') = "CONTIGUOUS") =>
            (arg' >= size - end_pos)]_vars

\* a pull in the wrapped state crossed the physical end (the read cursor
\* ends below the number of bytes pulled) and left the data contiguous
C17_Witness ==
  /\ op = "pull" /\ result = "ok"
  /\ start_pos > end_pos
  /\ arg > end_pos

\* the circular positions sp, sp + 1, ..., sp + n - 1 modulo sz
Positions(sp, n, sz) == {(sp + k) % sz : k \in 0..(n - 1)}

\* C18: a successful push(data) changes only the len(data) circular store
\* positions from the write cursor on, none that holds unread data, and not
\* the read cursor; a successful pull changes no store byte and not the
\* write cursor.
C18_Frame ==
  [][/\ (op' = "push" /\ result' = "ok") =>
          /\ end_pos' = end_pos
          /\ Len(buf') = Len(buf)
          /\ \A i \in 0..(Len(buf) - 1) :
               (At(buf', i) # At(buf, i)) =>
                 /\ i \in Positions(start_pos, Len(arg'), size)
                 /\ i \notin Positions(end_pos, data_size, size)
     /\ (op' = "pull" /\ result' = "ok") =>
          /\ buf' = buf
          /\ start_pos' = start_pos]_vars

\* C19: next() raises Overflow exactly when the available size is 0;
\* otherwise its span starts at the write cursor, has a length between 1
\* and the available size, ends at or before the physical end of the store
\* and contains neither the reserved slot nor a position of buffered data.
C19_NextSpan ==
  LET mv == nextOf(buf, start_pos, end_pos, size)
      span == mv.lo..(mv.lo + mv.n - 1)
  IN /\ mv.raises <=> (available_size = 0)
     /\ ~mv.raises =>
          /\ mv.lo = start_pos
          /\ 1 <= mv.n /\ mv.n <= available_size
          /\ mv.lo + mv.n <= size
          /\ (end_pos - 1) % size \notin span
          /\ span \cap Positions(end_pos, data_size, size) = {}

\* C20: in every state that is not full, for every data of 1 to
\* len(next()) bytes, storing data at the start of the span of next() and
\* calling shift(len(data)) leaves the same store and cursors as
\* push_bytes(data), and raises the occupied size by len(data).
C20_ZeroCopyIsPush ==
  LET mv == nextOf(buf, start_pos, end_pos, size)
  IN (available_size # 0) =>
       \A data \in SeqsUpTo(Bytes, MaxData) :
         (1 <= Len(data) /\ Len(data) <= mv.n) =>
           LET z == zero_copyOf(buf, start_pos, end_pos, size, data)
               r == push_bytesOf(buf, start_pos, end_pos, size, data)
           IN /\ r.result = "ok"
              /\ r.buf = z.buf
              /\ r.start_pos = z.start_pos
              /\ data_sizeOf(z.start_pos, end_pos, size)
                   = data_size + Len(data)

====
